---------------------------- MODULE Spec2Model ----------------------------
(***************************************************************************)
(* Model of toeplitzlda/usup_replay/llp.py: the analytic shrinkage         *)
(* covariance estimator `shrinkage` and the classifier                     *)
(* LearningFromLabelProportions (construction, fit, predict).              *)
(*                                                                         *)
(* Numbers.  A float is modelled by an exact rational <<n, d>> in lowest   *)
(* terms with d > 0, or by one of the three non-finite values of IEEE      *)
(* arithmetic: <<1, 0>> (+inf), <<-1, 0>> (-inf) and <<0, 0>> (NaN).       *)
(* Rounding is not modelled; division by zero, NaN propagation and the     *)
(* comparisons with NaN are.                                               *)
(***************************************************************************)
EXTENDS Integers, Sequences, FiniteSets, TLC

(***************************************************************************)
(* Floating point values                                                   *)
(***************************************************************************)
Abs(x) == IF x < 0 THEN -x ELSE x

Sgn(x) == IF x < 0 THEN -1 ELSE IF x = 0 THEN 0 ELSE 1

RECURSIVE Gcd(_, _)
Gcd(a, b) == IF b = 0 THEN a ELSE Gcd(b, a % b)

\* the float n/d (d = 0 gives the IEEE result of a division by zero)
Q(n, d) ==
    IF d = 0 THEN <<Sgn(n), 0>>
    ELSE LET g == Gcd(Abs(n), Abs(d))
             s == Sgn(d)
         IN  <<(s * n) \div g, (s * d) \div g>>

I(n) == <<n, 1>>

NaN == <<0, 0>>

PosInf == <<1, 0>>

NegInf == <<-1, 0>>

IsNaN(a) == a = NaN

IsFinite(a) == a[2] # 0

QNeg(a) == <<-a[1], a[2]>>

QAdd(a, b) ==
    IF IsNaN(a) \/ IsNaN(b) THEN NaN
    ELSE IF ~IsFinite(a) THEN (IF ~IsFinite(b) /\ b # a THEN NaN ELSE a)
    ELSE IF ~IsFinite(b) THEN b
    ELSE Q(a[1] * b[2] + b[1] * a[2], a[2] * b[2])

QSub(a, b) == QAdd(a, QNeg(b))

QMul(a, b) ==
    IF IsNaN(a) \/ IsNaN(b) THEN NaN
    ELSE IF ~IsFinite(a) \/ ~IsFinite(b)
         THEN <<Sgn(a[1]) * Sgn(b[1]), 0>>
    ELSE Q(a[1] * b[1], a[2] * b[2])

\* numpy true division: x/0 is +-inf, 0/0 and inf/inf are NaN, no exception
QDiv(a, b) ==
    IF IsNaN(a) \/ IsNaN(b) THEN NaN
    ELSE IF ~IsFinite(b) THEN (IF IsFinite(a) THEN I(0) ELSE NaN)
    ELSE IF ~IsFinite(a) THEN <<a[1] * (IF b[1] < 0 THEN -1 ELSE 1), 0>>
    ELSE Q(a[1] * b[2], a[2] * b[1])

\* a < b; every comparison with NaN is false
QLt(a, b) ==
    /\ ~IsNaN(a)
    /\ ~IsNaN(b)
    /\ IF IsFinite(a) /\ IsFinite(b) THEN a[1] * b[2] < b[1] * a[2]
       ELSE IF ~IsFinite(a) /\ ~IsFinite(b) THEN a[1] < b[1]
       ELSE IF ~IsFinite(a) THEN a[1] < 0
       ELSE b[1] > 0

QGt(a, b) == QLt(b, a)

QLe(a, b) == ~IsNaN(a) /\ ~IsNaN(b) /\ ~QLt(b, a)

IsSquareInt(n) == \E r \in 0..n : r * r = n

ISqrt(n) == CHOOSE r \in 0..n : r * r = n

\* a finite a >= 0 whose square root is a rational
IsSquare(a) == IsFinite(a) /\ a[1] >= 0 /\ IsSquareInt(a[1]) /\ IsSquareInt(a[2])

\* np.sqrt, on the values whose root is representable
QSqrt(a) == Q(ISqrt(a[1]), ISqrt(a[2]))

(***************************************************************************)
(* Arrays: a vector of length p is a function on 0..p-1, a p x q matrix a  *)
(* function on 0..p-1 of vectors of length q (row major, as numpy).        *)
(***************************************************************************)
Len0(v) == Cardinality(DOMAIN v)

\* an array held in memory: the function a, with its entries computed once
Array(a) == IF a = a THEN a ELSE a

RECURSIVE SumTo(_, _)
SumTo(v, k) == IF k = 0 THEN I(0) ELSE QAdd(SumTo(v, k - 1), v[k - 1])

\* np.sum of a vector
VSum(v) == SumTo(v, Len0(v))

\* np.mean of a vector (NaN for an empty one)
VMean(v) == QDiv(VSum(v), I(Len0(v)))

\* np.sum of a matrix
MSum(M) == VSum([i \in DOMAIN M |-> VSum(M[i])])

\* np.dot of two vectors
Dot(u, v) == VSum([i \in DOMAIN u |-> QMul(u[i], v[i])])

None == <<>>


(***************************************************************************)
(* sklearn StandardScaler, as used by shrinkage (llp.py 24-25): per        *)
(* feature, the mean and the population standard deviation over the        *)
(* samples; a zero deviation is replaced by 1.                             *)
(***************************************************************************)
\* the mean of the squared deviations of the samples x from their mean m
MeanSquare(x, m) == VMean([k \in DOMAIN x |-> QMul(QSub(x[k], m), QSub(x[k], m))])

\* per-feature population variance of the p x n matrix X
FeatureVar(X, i) == MeanSquare(X[i], VMean(X[i]))

\* the inputs whose per-feature deviations are rational numbers
ScaleRepresentable(X) == \A i \in DOMAIN X : IsSquare(FeatureVar(X, i))

\* the deviation of a feature of variance v, 1 for a constant feature
ScaleOf(v) == IF v = I(0) THEN I(1) ELSE QSqrt(v)

\* sc.scale_ after sc.fit_transform(X.T)
ScalerScale(X) == Array([i \in DOMAIN X |-> ScaleOf(FeatureVar(X, i))])

\* the samples x of one feature less m, over s
Shift(x, m, s) == [k \in DOMAIN x |-> QDiv(QSub(x[k], m), s)]

\* sc.fit_transform(X.T).T, given sc.scale_
ScalerTransform(X, scale) ==
    Array([i \in DOMAIN X |-> Shift(X[i], VMean(X[i]), scale[i])])

(***************************************************************************)
(* shrinkage (llp.py 10-55), in the order of its statements; a value that  *)
(* a statement assigns is handed to the statements after it                *)
(***************************************************************************)
\* line 26: Xn
Center(X) == Array([i \in DOMAIN X |-> Shift(X[i], VMean(X[i]), I(1))])

\* line 28: np.matmul(Xn, Xn.T)
Scatter(Xn) == Array([i \in DOMAIN Xn |-> [j \in DOMAIN Xn |-> Dot(Xn[i], Xn[j])]])

\* line 29: Xn2
Squares(Xn) ==
    Array([i \in DOMAIN Xn |-> [k \in DOMAIN Xn[i] |-> QMul(Xn[i][k], Xn[i][k])]])

\* lines 32 and 34: nu * np.eye(p, p)
ScaledEye(nu, P) ==
    Array([i \in P |-> [j \in P |-> QMul(nu, IF i = j THEN I(1) ELSE I(0))]])

DefaultTarget(S) == ScaledEye(VMean([d \in DOMAIN S |-> S[d][d]]), DOMAIN S)

\* lines 36-38: the scale vector after the block-homogeneous step
BlockScale(scale, n_channels, n_times) ==
    LET channel_vars == [c \in 0..(n_channels - 1) |->
                            [t \in 0..(n_times - 1) |-> scale[c * n_times + t]]]
        block_vars == [c \in 0..(n_channels - 1) |-> VMean(channel_vars[c])]
    IN  \* np.tile(block_vars, n_times): block_vars repeated n_times times
        Array([i \in 0..(n_channels * n_times - 1) |-> block_vars[i % n_channels]])

\* line 42: V
EstimatorVar(Xn2, S, n) ==
    Array([i \in DOMAIN S |-> [j \in DOMAIN S |->
             QMul(Q(1, n - 1),
                  QSub(Dot(Xn2[i], Xn2[j]), QDiv(QMul(S[i][j], S[i][j]), I(n))))]])

\* line 44: n * np.sum(V) / np.sum(np.square(S - T))
AnalyticGamma(V, S, T, n) ==
    QDiv(QMul(I(n), MSum(V)),
         MSum([i \in DOMAIN S |-> [j \in DOMAIN S |->
                 QMul(QSub(S[i][j], T[i][j]), QSub(S[i][j], T[i][j]))]]))

\* lines 45-50: the clamp of gamma
ClampGamma(gamma) ==
    IF QGt(gamma, I(1)) THEN I(1)
    ELSE IF QLt(gamma, I(0)) THEN I(0)
    ELSE gamma

\* line 51 with the weights of T and S exchanged: gamma = 1 gives S / (n - 1)
ShrunkTowardScatter(gamma, T, S, n) ==
    Array([i \in DOMAIN S |-> [j \in DOMAIN S |->
             QDiv(QAdd(QMul(gamma, S[i][j]), QMul(QSub(I(1), gamma), T[i][j])),
                  I(n - 1))]])

\* line 51: (gamma * T + (1 - gamma) * S) / (n - 1)
Shrunk(gamma, T, S, n) ==
    Array([i \in DOMAIN S |-> [j \in DOMAIN S |->
             QDiv(QAdd(QMul(gamma, T[i][j]), QMul(QSub(I(1), gamma), S[i][j])),
                  I(n - 1))]])

\* line 53: sc.scale_[np.newaxis, :] * Cstar * sc.scale_[:, np.newaxis]
ScaleBack(C, scale_) ==
    Array([i \in DOMAIN C |-> [j \in DOMAIN C |->
             QMul(QMul(scale_[j], C[i][j]), scale_[i])]])

\* lines 51-55, given S, T, the scale vectors and the clamped gamma
shrinkage_return(S, T, scale, scale_, gamma, n, standardize) ==
    [status |-> "ok",
     Cstar |-> IF standardize
               THEN ScaleBack(Shrunk(gamma, T, S, n), scale_)
               ELSE Shrunk(gamma, T, S, n),
     gamma |-> gamma, T |-> T, S |-> S, scale |-> scale, scale_ |-> scale_]

\* lines 29-50, given Xn, S and T
shrinkage_gamma(Xn, gamma, T, S, scale, scale_, standardize) ==
    shrinkage_return(S, T, scale, scale_,
                     ClampGamma(IF gamma = None
                                THEN AnalyticGamma(EstimatorVar(Squares(Xn), S, Len0(Xn[0])),
                                                   S, T, Len0(Xn[0]))
                                ELSE gamma),
                     Len0(Xn[0]), standardize)

\* lines 32-39, given Xn and S
shrinkage_target(Xn, gamma, T, S, block, n_channels, n_times, standardize, scale) ==
    shrinkage_gamma(Xn, gamma, IF T = None THEN DefaultTarget(S) ELSE T, S, scale,
                    IF block /\ standardize
                    THEN BlockScale(scale, n_channels, n_times)
                    ELSE scale,
                    standardize)

\* lines 26-28, given the standardized X and the scale vector
shrinkage_scatter(Xn, gamma, T, S, block, n_channels, n_times, standardize, scale) ==
    shrinkage_target(Xn, gamma, T, IF S = None THEN Scatter(Xn) ELSE S,
                     block, n_channels, n_times, standardize, scale)

\* lines 23-25, given sc.scale_ (None without standardize)
shrinkage_scaled(X, gamma, T, S, block, n_channels, n_times, standardize, scale) ==
    shrinkage_scatter(Center(IF standardize THEN ScalerTransform(X, scale) ELSE X),
                      gamma, T, S, block, n_channels, n_times, standardize, scale)

\* what a call returns (Cstar and gamma, with the S, T and scale vectors it
\* used) or the exception it raises; X is p x n with p, n >= 1
shrinkage(X, gamma, T, S, block, n_channels, n_times, standardize) ==
    IF block /\ standardize /\ Len0(X) # n_channels * n_times
    THEN [status |-> "ValueError"]            \* np.reshape, line 36
    ELSE IF Len0(X[0]) = 1
    THEN [status |-> "ZeroDivisionError"]     \* 1.0 / (n - 1), line 42
    ELSE shrinkage_scaled(X, gamma, T, S, block, n_channels, n_times, standardize,
                          IF standardize THEN ScalerScale(X) ELSE None)

(***************************************************************************)
(* numpy.linalg, as used by the classifier                                 *)
(***************************************************************************)
\* M without row 0 and column c
Minor(M, p, c) ==
    [i \in 0..(p - 2) |-> [j \in 0..(p - 2) |-> M[i + 1][IF j < c THEN j ELSE j + 1]]]

RECURSIVE Det(_, _)
Det(M, p) ==
    IF p = 1 THEN M[0][0]
    ELSE VSum([c \in 0..(p - 1) |->
                 QMul(IF c % 2 = 0 THEN M[0][c] ELSE QNeg(M[0][c]),
                      Det(Minor(M, p, c), p - 1))])

\* np.linalg.inv of a 2 x 2 matrix; LinAlgError when it is singular
Inv(M) ==
    LET d == Det(M, 2)
    IN  IF d = I(0) THEN [status |-> "LinAlgError"]
        ELSE [status |-> "ok",
              value |-> [i \in 0..1 |-> [j \in 0..1 |->
                  QDiv(IF i = j THEN M[1 - i][1 - j] ELSE QNeg(M[i][j]), d)]]]

\* np.linalg.solve(A, b); LinAlgError when A is singular
Solve(A, b) ==
    LET p == Len0(A)
        d == Det(A, p)
        Ai(c) == [i \in 0..(p - 1) |-> [j \in 0..(p - 1) |-> IF j = c THEN b[i] ELSE A[i][j]]]
    IN  IF d = I(0) THEN [status |-> "LinAlgError"]
        ELSE [status |-> "ok",
              value |-> Array([c \in 0..(p - 1) |-> QDiv(Det(Ai(c), p), d)])]

(***************************************************************************)
(* blockmatrix.SpatioTemporalMatrix, the regularizer fit drives: a p x p   *)
(* matrix read as a grid of nb x nb blocks of size m x m, index a*m + i     *)
(* being position i of block a.  In the channel-prime orientation the      *)
(* blocks are indexed by time (nb = n_times, m = n_chans); swap_primeness    *)
(* exchanges the two roles.  Every call is appended to `calls`.            *)
(***************************************************************************)
NBlocks(stm) == IF stm.channel_prime THEN stm.n_times ELSE stm.n_chans

BlockSize(stm) == IF stm.channel_prime THEN stm.n_chans ELSE stm.n_times

\* a taper profile: the weight of a block at distance d among nb blocks
Linear == <<"linear">>

TaperWeight(taper, d, nb) == IF taper = Linear THEN Q(nb - d, nb) ELSE I(1)

SpatioTemporalMatrix(mat, n_chans, n_times) ==
    IF n_chans * n_times # Len0(mat)
    THEN [status |-> "ValueError"]
    ELSE [status |-> "ok", mat |-> mat, n_chans |-> n_chans, n_times |-> n_times,
          channel_prime |-> TRUE, calls |-> <<>>]

\* every block replaced by the mean of the blocks at the same block lag
force_toeplitz_offdiagonals(stm, raise_spatial) ==
    LET nb == NBlocks(stm)
        m == BlockSize(stm)
        P == 0..(nb * m - 1)
        lo(d) == IF d > 0 THEN d ELSE 0
        Avg(i, j) ==
            LET d == (i \div m) - (j \div m)
            IN  VMean([k \in 0..(nb - Abs(d) - 1) |->
                         stm.mat[(lo(d) + k) * m + (i % m)][(lo(d) + k - d) * m + (j % m)]])
    IN  IF ~stm.channel_prime /\ raise_spatial
        THEN [status |-> "ValueError"]
        ELSE [stm EXCEPT !.mat = Array([i \in P |-> [j \in P |-> Avg(i, j)]]),
                         !.calls = Append(@, <<"force_toeplitz_offdiagonals", raise_spatial,
                                               stm.channel_prime>>)]

\* every block scaled by the taper weight of its block distance
taper_offdiagonals(stm, taper) ==
    LET nb == NBlocks(stm)
        m == BlockSize(stm)
        P == 0..(nb * m - 1)
    IN  [stm EXCEPT !.mat = Array([i \in P |-> [j \in P |->
                                QMul(stm.mat[i][j],
                                     TaperWeight(taper, Abs((i \div m) - (j \div m)), nb))]]),
                    !.calls = Append(@, <<"taper_offdiagonals", taper, stm.channel_prime>>)]

\* the same matrix with the block and within-block indices exchanged
swap_primeness(stm) ==
    LET nb == NBlocks(stm)
        m == BlockSize(stm)
        P == 0..(nb * m - 1)
        old(i) == (i % nb) * m + (i \div nb)
    IN  [stm EXCEPT !.mat = Array([i \in P |-> [j \in P |-> stm.mat[old(i)][old(j)]]]),
                    !.channel_prime = ~@,
                    !.calls = Append(@, <<"swap_primeness", None, stm.channel_prime>>)]

(***************************************************************************)
(* LearningFromLabelProportions (llp.py 58-166)                            *)
(***************************************************************************)
\* line 87
DefaultRatioMatrix ==
    [i \in 0..1 |-> [j \in 0..1 |->
        IF i = 0 THEN (IF j = 0 THEN Q(3, 8) ELSE Q(5, 8))
        ELSE (IF j = 0 THEN Q(2, 18) ELSE Q(16, 18))]]

\* a constructor that keeps whatever matrix it is given and falls back on a
\* pseudo-inverse where np.linalg.inv would raise
init_pinv(ratio_matrix, toeplitz_time, taper_time, toeplitz_spatial, taper_spatial, n_times, n_channels) ==
    LET rm == IF ratio_matrix = None THEN DefaultRatioMatrix ELSE ratio_matrix
        inv == Inv(rm)
    IN  [status |-> "ok",
         self |-> [ratio_matrix |-> rm,
                   pinv_ratio_matrix |-> IF inv.status = "ok" THEN inv.value
                                         ELSE [i \in 0..1 |-> [j \in 0..1 |-> Q(1, 4)]],
                   w |-> None, b |-> None,
                   n_times |-> n_times, n_channels |-> n_channels,
                   toeplitz_time |-> toeplitz_time, taper_time |-> taper_time,
                   toeplitz_spatial |-> toeplitz_spatial,
                   taper_spatial |-> taper_spatial,
                   mu_T |-> None, mu_NT |-> None, stm_info |-> None]]

\* lines 76-101.  The attribute ratio_matrix is assigned only under
\* `if ratio_matrix is None`; line 88 reads it back from the instance.
__init__(ratio_matrix, toeplitz_time, taper_time, toeplitz_spatial, taper_spatial, n_times, n_channels) ==
    LET attrs == IF ratio_matrix = None
                 THEN [ratio_matrix |-> DefaultRatioMatrix]
                 ELSE [unset |-> TRUE]
        inv == Inv(attrs.ratio_matrix)
    IN  IF "ratio_matrix" \notin DOMAIN attrs
        THEN [status |-> "AttributeError"]
        ELSE IF inv.status # "ok"
        THEN [status |-> inv.status]
        ELSE [status |-> "ok",
              self |-> [ratio_matrix |-> attrs.ratio_matrix,
                        pinv_ratio_matrix |-> inv.value,
                        w |-> None, b |-> None,
                        n_times |-> n_times, n_channels |-> n_channels,
                        toeplitz_time |-> toeplitz_time, taper_time |-> taper_time,
                        toeplitz_spatial |-> toeplitz_spatial,
                        taper_spatial |-> taper_spatial,
                        mu_T |-> None, mu_NT |-> None, stm_info |-> None]]

\* X.reshape(X.shape[0], -1): trial k flattened, channel c at time t to c*n_t + t
Flatten(X) ==
    Array([k \in DOMAIN X |->
        LET n_c == Len0(X[k])
            n_t == Len0(X[k][0])
        IN  [f \in 0..(n_c * n_t - 1) |-> X[k][f \div n_t][f % n_t]]])

\* the indices np.where(y == v) selects, in increasing order
RECURSIVE Where(_, _, _)
Where(y, v, k) ==
    IF k = 0 THEN <<>>
    ELSE IF y[k - 1] = v THEN Append(Where(y, v, k - 1), k - 1)
    ELSE Where(y, v, k - 1)

\* the rows of the flattened X that idx selects
Rows(Xf, idx) == Array([k \in 0..(Len(idx) - 1) |-> Xf[idx[k + 1]]])

\* np.mean(Xp, axis=0) of a pool of flattened trials of p features
PoolMean(Xp, p) == Array([f \in 0..(p - 1) |-> VMean([k \in DOMAIN Xp |-> Xp[k][f]])])

\* the protocol without its closing swap_primeness
RegularizeOneSwap(self, stm0) ==
    LET s1 == IF self.toeplitz_time
              THEN force_toeplitz_offdiagonals(stm0, TRUE)
              ELSE stm0
        s2 == IF self.taper_time # None THEN taper_offdiagonals(s1, self.taper_time) ELSE s1
        s3 == swap_primeness(s2)
        s4 == IF self.toeplitz_spatial
              THEN force_toeplitz_offdiagonals(s3, FALSE)
              ELSE s3
    IN  IF s1.status # "ok" THEN s1
        ELSE IF s4.status # "ok" THEN s4
        ELSE IF self.taper_spatial # None
        THEN taper_offdiagonals(s4, self.taper_spatial)
        ELSE s4

\* lines 124-133: the regularization protocol
Regularize(self, stm0) ==
    LET s1 == IF self.toeplitz_time
              THEN force_toeplitz_offdiagonals(stm0, TRUE)
              ELSE stm0
        s2 == IF self.taper_time # None THEN taper_offdiagonals(s1, self.taper_time) ELSE s1
        s3 == swap_primeness(s2)
        s4 == IF self.toeplitz_spatial
              THEN force_toeplitz_offdiagonals(s3, FALSE)
              ELSE s3
        s5 == IF self.taper_spatial # None
              THEN taper_offdiagonals(s4, self.taper_spatial)
              ELSE s4
    IN  IF s1.status # "ok" THEN s1
        ELSE IF s4.status # "ok" THEN s4
        ELSE swap_primeness(s5)

\* lines 141-146: the unmixing of one class mean, row r of the inverse
Unmix(self, r, average_O1, average_O2) ==
    Array([f \in DOMAIN average_O1 |->
             QAdd(QMul(self.pinv_ratio_matrix[r][0], average_O1[f]),
                  QMul(self.pinv_ratio_matrix[r][1], average_O2[f]))])

\* line 153: 2 * C_w / np.dot(C_w.T, C_diff)
Normalize(C_w, C_diff) ==
    Array([f \in DOMAIN C_w |-> QDiv(QMul(I(2), C_w[f]), Dot(C_w, C_diff))])

\* line 154: np.dot(-C_w.T, C_mean), C_mean = 0.5 * (mu_T + mu_NT)
Bias(C_w, mu_T, mu_NT) ==
    Dot([f \in DOMAIN C_w |-> QNeg(C_w[f])],
        [f \in DOMAIN C_w |-> QMul(Q(1, 2), QAdd(mu_T[f], mu_NT[f]))])

\* lines 153-162, given the normalized C_w
fit_store(self, stm, mu_T, mu_NT, C_w) ==
    [status |-> "ok",
     self |-> [self EXCEPT !.w = C_w, !.b = Bias(C_w, mu_T, mu_NT),
                           !.mu_T = mu_T, !.mu_NT = mu_NT],
     calls |-> stm.calls]

\* a fit that stores the class means before the solve, so that a solve that
\* raises leaves them behind
fit_solved_means_first(self, stm, mu_T, mu_NT, C_diff, sol) ==
    IF sol.status # "ok"
    THEN [status |-> sol.status,
          self |-> [self EXCEPT !.mu_T = mu_T, !.mu_NT = mu_NT],
          calls |-> stm.calls]
    ELSE fit_store(self, stm, mu_T, mu_NT, Normalize(sol.value, C_diff))

\* lines 152-162, given what np.linalg.solve returned or raised
fit_solved(self, stm, mu_T, mu_NT, C_diff, sol) ==
    IF sol.status # "ok"
    THEN [status |-> sol.status, self |-> self, calls |-> stm.calls]
    ELSE fit_store(self, stm, mu_T, mu_NT, Normalize(sol.value, C_diff))

\* lines 149-162, given the regularized covariance and the class means
fit_means(self, stm, mu_T, mu_NT, C_diff) ==
    fit_solved(self, stm, mu_T, mu_NT, C_diff, Solve(stm.mat, C_diff))

\* lines 135-162, given the regularizer after the protocol and the class means
fit_regularized(self, stm, mu_T, mu_NT) ==
    IF stm.status # "ok"
    THEN [status |-> stm.status, self |-> self, calls |-> <<>>]
    ELSE fit_means(self, stm, mu_T, mu_NT,
                   Array([f \in DOMAIN mu_T |-> QSub(mu_T[f], mu_NT[f])]))

\* lines 124-162, given the regularizer as constructed and the pool means
fit_protocol(self, stm0, average_O1, average_O2) ==
    IF stm0.status # "ok"
    THEN [status |-> stm0.status, self |-> self, calls |-> <<>>]
    ELSE fit_regularized(self, Regularize(self, stm0),
                         Unmix(self, 0, average_O1, average_O2),
                         Unmix(self, 1, average_O1, average_O2))

\* lines 122-162, given what shrinkage returned or raised
fit_covariance(self, X1, X2, p, shr) ==
    IF shr.status # "ok"
    THEN [status |-> shr.status, self |-> self, calls |-> <<>>]
    ELSE fit_protocol(self, SpatioTemporalMatrix(shr.Cstar, self.n_channels, self.n_times),
                      PoolMean(X1, p), PoolMean(X2, p))

\* lines 117-162, given the flattened X and the two pools
fit_pools(self, Xf, X1, X2) ==
    IF Len0(X1) = 0 \/ Len0(X2) = 0
    THEN [status |-> "ValueError", self |-> self, calls |-> <<>>]   \* reshape of an empty pool
    ELSE fit_covariance(self, X1, X2, Len0(Xf[0]),
                        shrinkage(Array([f \in DOMAIN Xf[0] |-> [k \in DOMAIN Xf |-> Xf[k][f]]]),
                                  None, None, None, FALSE, 31, 5, TRUE))

\* a fit that drops the model of an earlier fit on entry
fit_flat_reset(self, Xf, y) ==
    fit_pools([self EXCEPT !.w = None, !.b = None, !.mu_T = None, !.mu_NT = None],
              Xf, Rows(Xf, Where(y, 1, Len0(Xf))), Rows(Xf, Where(y, 2, Len0(Xf))))

\* lines 113-162, given the flattened X
fit_flat(self, Xf, y) ==
    fit_pools(self, Xf, Rows(Xf, Where(y, 1, Len0(Xf))), Rows(Xf, Where(y, 2, Len0(Xf))))

\* lines 103-162: what fit raises, or the instance it leaves and returns,
\* with the calls it made on the regularizer; X holds n >= 1 trials
fit(self, X, y) == fit_flat(self, Flatten(X), y)

\* a predict that scores every trial 0 while there is no w
predict_flat_zero(self, Xf) ==
    IF self.w = None
    THEN [status |-> "ok", value |-> Array([k \in DOMAIN Xf |-> I(0)])]
    ELSE IF Len0(Xf[0]) # Len0(self.w)
    THEN [status |-> "ValueError"]
    ELSE [status |-> "ok",
          value |-> Array([k \in DOMAIN Xf |-> QAdd(Dot(Xf[k], self.w), self.b)])]

\* lines 164-166: np.dot with w = None raises TypeError, with a w of another
\* length ValueError
predict_flat(self, Xf) ==
    IF self.w = None
    THEN [status |-> "TypeError"]
    ELSE IF Len0(Xf[0]) # Len0(self.w)
    THEN [status |-> "ValueError"]
    ELSE [status |-> "ok",
          value |-> Array([k \in DOMAIN Xf |-> QAdd(Dot(Xf[k], self.w), self.b)])]

predict(self, X) == predict_flat(self, Flatten(X))

(***************************************************************************)
(* State                                                                   *)
(***************************************************************************)
VARIABLES
    obj,    \* the classifier instance (its attributes), or None while there is none
    fitted, \* whether a fit of the instance has returned
    last,   \* the last operation on the classifier and how it ended
    call,   \* the arguments of one call of shrinkage or fit, or None
    ret     \* what that call of shrinkage returned or raised, or None

vars == <<obj, fitted, last, call, ret>>

(***************************************************************************)
(* Bounds of the shrinkage calls that are explored                         *)
(***************************************************************************)
\* most samples (columns of X) of a call without block rescaling
MaxSamples == 3

\* most samples of a call with block rescaling
MaxBlockSamples == 2

\* entries of the data
TrialValues == {0, 1}

\* (n_channels, n_times) passed to a call that asks for block rescaling
BlockDims == {<<1, 1>>, <<2, 1>>, <<1, 2>>, <<2, 2>>}

\* a gamma passed to a call
GammaArgs == {None, Q(-1, 1), Q(0, 1), Q(1, 2), Q(1, 1), Q(2, 1)}

\* the p x n matrices over TrialValues
Matrices(p, n) == [0..(p - 1) -> [0..(n - 1) -> {I(v) : v \in TrialValues}]]

\* two symmetric p x p matrices passed as S or T
MatA(p) == [i \in 0..(p - 1) |-> [j \in 0..(p - 1) |-> IF i = j THEN I(3) ELSE I(1)]]

MatB(p) == [i \in 0..(p - 1) |-> [j \in 0..(p - 1) |-> IF i = j THEN I(2) ELSE I(0)]]

\* calls without block rescaling, on one or two features
PlainArgs ==
    [X : UNION {Matrices(p, n) : p \in 1..2, n \in 1..MaxSamples},
     gamma : GammaArgs, T : {"None", "A", "B"}, S : {"None", "A"},
     block : {FALSE}, standardize : BOOLEAN, dims : {<<31, 5>>}]

\* calls that ask for block rescaling, on the features of up to 2 x 2 grids
BlockArgs ==
    [X : UNION {Matrices(p, n) : p \in {1, 2, 4}, n \in 1..MaxBlockSamples},
     gamma : {None, Q(1, 1)}, T : {"None"}, S : {"None"},
     block : {TRUE}, standardize : BOOLEAN, dims : BlockDims]

\* the standard deviations of the data must be rational to be represented
ShrinkageArgs ==
    {a \in PlainArgs \cup BlockArgs : a.standardize => ScaleRepresentable(a.X)}

ArgMatrix(tag, p) == IF tag = "None" THEN None ELSE IF tag = "A" THEN MatA(p) ELSE MatB(p)

InitShrinkage ==
    /\ call \in ShrinkageArgs
    /\ ret = None
    /\ obj = None
    /\ fitted = FALSE
    /\ last = None

\* one call of shrinkage with the arguments drawn in the initial state
ShrinkageCall ==
    /\ ret = None
    /\ ret' = shrinkage(call.X, call.gamma, ArgMatrix(call.T, Len0(call.X)),
                        ArgMatrix(call.S, Len0(call.X)), call.block,
                        call.dims[1], call.dims[2], call.standardize)
    /\ UNCHANGED <<call, obj, fitted, last>>

NextShrinkage == ShrinkageCall

SpecShrinkage == InitShrinkage /\ [][NextShrinkage]_vars


(***************************************************************************)
(* Inputs of the classifier                                                *)
(***************************************************************************)
\* most trials of one fit on a fresh classifier
MaxTrials == 4

\* most trials of a fit in the life of one classifier
MaxLifeTrials == 2

\* most operations on one classifier, construction included
MaxOps == 3

\* (n_channels, n_times) a classifier is configured with
ConfigDims == {<<2, 1>>, <<1, 2>>}

\* (n_channels, n_times) of the trials passed to fit and predict
TrialDims == {<<1, 1>>, <<2, 1>>}

\* sequence labels passed to fit
Labels == {1, 2, 3}

Identity == [i \in 0..1 |-> [j \in 0..1 |-> IF i = j THEN I(1) ELSE I(0)]]

Singular == [i \in 0..1 |-> [j \in 0..1 |-> I(1)]]

\* ratio_matrix arguments of the constructor
RatioArgs == {None, Identity, Singular}

\* the other arguments of the constructor
ConfigArgs ==
    [toeplitz_time : BOOLEAN, taper_time : {None, Linear},
     toeplitz_spatial : BOOLEAN, taper_spatial : {None, Linear}, dims : ConfigDims]

\* n trials of n_c channels and n_t times over TrialValues
Trials(n, n_c, n_t) ==
    [0..(n - 1) -> [0..(n_c - 1) -> [0..(n_t - 1) -> {I(v) : v \in TrialValues}]]]

\* the flattened trials as the p x n matrix fit passes to shrinkage
Features(X) ==
    Array([f \in DOMAIN Flatten(X)[0] |-> [k \in DOMAIN X |-> Flatten(X)[k][f]]])

\* a trial read as a number in base 2, first feature most significant
RECURSIVE Code(_, _)
Code(x, k) == IF k = 0 THEN 0 ELSE 2 * Code(x, k - 1) + x[k - 1][1]

\* fit sums over the samples: one order of every sample of trials is drawn,
\* the trials ascending and the labels of equal trials ascending
TrialCode(X, k) == Code(Flatten(X)[k], Len0(Flatten(X)[k]))

Ascending(X, y) ==
    \A k \in DOMAIN X : k > 0 =>
       \/ TrialCode(X, k - 1) < TrialCode(X, k)
       \/ TrialCode(X, k - 1) = TrialCode(X, k) /\ y[k - 1] <= y[k]

\* the (X, y) of up to N trials passed to fit, X of rational deviations
FitArgs(N) ==
    UNION {{a \in [X : {Z \in Trials(n, d[1], d[2]) :
                          /\ ScaleRepresentable(Features(Z))
                          /\ Ascending(Z, [k \in 0..(n - 1) |-> 1])},
                   y : [0..(n - 1) -> Labels]] : Ascending(a.X, a.y)} :
           n \in 1..N, d \in TrialDims}

FreshFitArgs == FitArgs(MaxTrials)

LifeFitArgs == FitArgs(MaxLifeTrials)

\* the X passed to predict: one trial
PredictArgs == UNION {Trials(1, d[1], d[2]) : d \in TrialDims}

\* the record of an operation on the classifier that returned or raised
Outcome(op, status, n) ==
    [op |-> op, status |-> status, n |-> n, ratio_matrix |-> None, labels |-> {},
     calls |-> <<>>, value |-> None]

NoCall == Outcome("none", "ok", 0)

(***************************************************************************)
(* The classifier: construction, then fit and predict calls in any order   *)
(***************************************************************************)
Init ==
    /\ obj = None
    /\ fitted = FALSE
    /\ last = NoCall
    /\ call = None
    /\ ret = None

\* LearningFromLabelProportions(ratio_matrix=..., ...), the time and the
\* spatial pass configured alike
Construct ==
    /\ obj = None
    /\ last.n < MaxOps
    /\ \E rm \in RatioArgs, c \in ConfigArgs :
          LET r == __init__(rm, c.toeplitz_time, c.taper_time, c.toeplitz_spatial,
                            c.taper_spatial, c.dims[2], c.dims[1])
          IN  /\ c.toeplitz_time = c.toeplitz_spatial
              /\ c.taper_time = c.taper_spatial
              /\ c.toeplitz_time = (c.taper_time # None)
              /\ c.dims = <<2, 1>>
              /\ obj' = IF r.status = "ok" THEN r.self ELSE None
              /\ last' = [Outcome("__init__", r.status, last.n + 1)
                             EXCEPT !.ratio_matrix = rm]
    /\ UNCHANGED <<fitted, call, ret>>

\* obj.fit(X, y)
Fit ==
    /\ obj # None
    /\ last.n < MaxOps
    /\ \E a \in LifeFitArgs :
          LET r == fit(obj, a.X, a.y)
          IN  /\ obj' = r.self
              /\ fitted' = (fitted \/ r.status = "ok")
              /\ last' = [Outcome("fit", r.status, last.n + 1)
                             EXCEPT !.labels = {a.y[k] : k \in DOMAIN a.y},
                                    !.calls = r.calls,
                                    !.value = IF r.status = "ok" THEN <<"self">> ELSE None]
    /\ UNCHANGED <<call, ret>>

\* obj.predict(X)
Predict ==
    /\ obj # None
    /\ last.n < MaxOps
    /\ \E X \in PredictArgs :
          LET r == predict(obj, X)
          IN  last' = [Outcome("predict", r.status, last.n + 1)
                          EXCEPT !.value = IF r.status = "ok" THEN r.value ELSE None]
    /\ UNCHANGED <<obj, fitted, call, ret>>

Next == Construct \/ Fit \/ Predict

Spec == Init /\ [][Next]_vars

(***************************************************************************)
(* One fit of a fresh classifier, of every configuration                   *)
(***************************************************************************)
\* a classifier as the constructor leaves it, and the (X, y) of the call
InitFit ==
    /\ \E c \in ConfigArgs :
          obj = __init__(None, c.toeplitz_time, c.taper_time, c.toeplitz_spatial,
                         c.taper_spatial, c.dims[2], c.dims[1]).self
    /\ fitted = FALSE
    /\ last = NoCall
    /\ call \in FreshFitArgs
    /\ ret = None

\* obj.fit(X, y) with the arguments drawn in the initial state
FitCall ==
    /\ last.op = "none"
    /\ LET r == fit(obj, call.X, call.y)
       IN  /\ obj' = r.self
           /\ fitted' = (r.status = "ok")
           /\ last' = [Outcome("fit", r.status, 1)
                          EXCEPT !.labels = {call.y[k] : k \in DOMAIN call.y},
                                 !.calls = r.calls,
                                 !.value = IF r.status = "ok" THEN <<"self">> ELSE None]
    /\ UNCHANGED <<call, ret>>

NextFit == FitCall

SpecFit == InitFit /\ [][NextFit]_vars

(***************************************************************************)
(* Properties of shrinkage, under SpecShrinkage                            *)
(***************************************************************************)
\* C2: every call of shrinkage that returns, returns a gamma in the closed
\* interval [0, 1]; in particular never a NaN.
GammaInUnitInterval ==
    (ret # None /\ ret.status = "ok") =>
        QLe(I(0), ret.gamma) /\ QLe(ret.gamma, I(1))

\* C3 as stated: a call with gamma forced to 1 returns Cstar = T / (n - 1), T
\* the target used in the call, whatever the other arguments are.
GammaOneGivesTarget ==
    (ret # None /\ ret.status = "ok" /\ call.gamma # None /\ ret.gamma = I(1)) =>
        ret.Cstar = [i \in DOMAIN ret.T |-> [j \in DOMAIN ret.T |->
                        QDiv(ret.T[i][j], I(Len0(call.X[0]) - 1))]]

\* C3 amended: a call with gamma forced to 1 returns T / (n - 1) when
\* standardize is off, and T[i][j] * scale_[i] * scale_[j] / (n - 1) when it is
\* on, scale_ being the scale vector of the final rescaling (the deviations of
\* the features of X, unless block rescaling replaced them); a T passed by the
\* caller is the T used, so that S plays no part.
GammaOneGivesRescaledTarget ==
    (ret # None /\ ret.status = "ok" /\ call.gamma # None /\ ret.gamma = I(1)) =>
        /\ call.T # "None" => ret.T = ArgMatrix(call.T, Len0(call.X))
        /\ (call.standardize /\ ~call.block) => ret.scale_ = ScalerScale(call.X)
        /\ ret.Cstar = [i \in DOMAIN ret.T |-> [j \in DOMAIN ret.T |->
                           IF call.standardize
                           THEN QDiv(QMul(QMul(ret.T[i][j], ret.scale_[i]), ret.scale_[j]),
                                     I(Len0(call.X[0]) - 1))
                           ELSE QDiv(ret.T[i][j], I(Len0(call.X[0]) - 1))]]

\* a standardizing call with gamma = 1, a given S and T, and a feature whose
\* deviation is not 1, has returned
GammaOneRescaledReturned ==
    /\ ret # None /\ ret.status = "ok"
    /\ call.gamma = I(1) /\ call.standardize /\ ~call.block
    /\ call.S = "A" /\ call.T = "B"
    /\ \E i \in DOMAIN ret.scale_ : ret.scale_[i] # I(1)

\* C10: with block rescaling and standardize, the scale used for the final
\* rescaling gives feature c * n_times + t the mean over t' of the deviations
\* of the features c * n_times + t' of channel c.
BlockScaleIsChannelMean ==
    (ret # None /\ ret.status = "ok" /\ call.block /\ call.standardize) =>
        \A c \in 0..(call.dims[1] - 1) : \A t \in 0..(call.dims[2] - 1) :
            ret.scale_[c * call.dims[2] + t] =
                VMean([u \in 0..(call.dims[2] - 1) |->
                          ScalerScale(call.X)[c * call.dims[2] + u]])

(***************************************************************************)
(* Properties of the classifier, under Spec                                *)
(***************************************************************************)
\* C1: the constructor accepts the invertible ratio matrix [[1,0],[0,1]] a
\* caller passes.
IdentityRatioAccepted ==
    (last.op = "__init__" /\ last.ratio_matrix = Identity) => last.status = "ok"

\* C4: predict on a classifier on which no fit has succeeded raises; it
\* returns no scores.
PredictUnfittedRaises ==
    (last.op = "predict" /\ ~fitted) => (last.status # "ok" /\ last.value = None)

\* predict has been called on a classifier without a model and has raised
PredictUnfittedCalled ==
    /\ obj # None /\ ~fitted /\ obj.w = None
    /\ last.op = "predict" /\ last.status = "TypeError"

\* C5: the constructor raises on a singular ratio matrix, and no classifier
\* ever holds one.
SingularRatioRejected ==
    /\ (last.op = "__init__" /\ last.ratio_matrix = Singular) =>
           (last.status # "ok" /\ obj = None)
    /\ obj # None => Det(obj.ratio_matrix, 2) # I(0)

\* the constructor has been called with [[1,1],[1,1]] and has raised
SingularRatioTried ==
    /\ last.op = "__init__" /\ last.ratio_matrix = Singular
    /\ last.status # "ok" /\ obj = None

\* C6: between operations, w, b, mu_T and mu_NT are all set or all unset.
ModelAllOrNothing ==
    obj # None =>
        Cardinality({obj.w = None, obj.b = None, obj.mu_T = None, obj.mu_NT = None}) = 1

\* a fit has raised in the linear solve, on a classifier without a model
FitFailedInSolve ==
    /\ obj # None /\ ~fitted
    /\ last.op = "fit" /\ last.status = "LinAlgError"
    /\ obj.w = None /\ obj.mu_T = None

\* C7 as stated: once a fit has returned, no later operation changes w, b,
\* mu_T or mu_NT of the classifier it returned.
ModelNeverChanges ==
    [][fitted => <<obj.w, obj.b, obj.mu_T, obj.mu_NT>>' =
                 <<obj.w, obj.b, obj.mu_T, obj.mu_NT>>]_vars

\* C7 amended: once a fit has returned, every predict and every fit that
\* raises leaves w, b, mu_T and mu_NT unchanged; only a later fit that returns
\* replaces them.
ModelChangesOnlyByFit ==
    [][(fitted /\ ~(last'.op = "fit" /\ last'.status = "ok")) =>
           <<obj.w, obj.b, obj.mu_T, obj.mu_NT>>' =
           <<obj.w, obj.b, obj.mu_T, obj.mu_NT>>]_vars

\* after a fit that returned, a second fit has raised and the model is there
FitFailedAfterFit ==
    /\ fitted /\ last.op = "fit" /\ last.status # "ok"
    /\ obj.w # None /\ obj.mu_T # None

(***************************************************************************)
(* Properties of one fit, under SpecFit                                    *)
(***************************************************************************)
\* C8: a fit whose y holds a value outside {1, 2} raises.
ForeignLabelRejected ==
    (last.op = "fit" /\ ~(last.labels \subseteq {1, 2})) =>
        (last.status # "ok" /\ obj.w = None)

\* C9: the calls a fit makes on the regularizer are, in this order,
\* force_toeplitz_offdiagonals() if toeplitz_time, taper_offdiagonals(taper_time)
\* if taper_time is given, swap_primeness(), force_toeplitz_offdiagonals(
\* raise_spatial=False) if toeplitz_spatial, taper_offdiagonals(taper_spatial)
\* if taper_spatial is given, swap_primeness(): the first pass in the original
\* orientation, the second in the swapped one, the last swap leaving the
\* original one.
RegularizerProtocol ==
    (last.op = "fit" /\ last.status \in {"ok", "LinAlgError"}) =>
        last.calls =
            (IF obj.toeplitz_time
             THEN << <<"force_toeplitz_offdiagonals", TRUE, TRUE>> >> ELSE << >>)
            \o (IF obj.taper_time # None
                THEN << <<"taper_offdiagonals", obj.taper_time, TRUE>> >> ELSE << >>)
            \o << <<"swap_primeness", None, TRUE>> >>
            \o (IF obj.toeplitz_spatial
                THEN << <<"force_toeplitz_offdiagonals", FALSE, FALSE>> >> ELSE << >>)
            \o (IF obj.taper_spatial # None
                THEN << <<"taper_offdiagonals", obj.taper_spatial, FALSE>> >> ELSE << >>)
            \o << <<"swap_primeness", None, FALSE>> >>

\* a fit of a classifier with toeplitz_time and taper_spatial alone has returned
MixedProtocolRun ==
    /\ last.op = "fit" /\ last.status = "ok"
    /\ obj.toeplitz_time /\ obj.taper_time = None
    /\ ~obj.toeplitz_spatial /\ obj.taper_spatial = Linear
    /\ obj.n_channels = 1 /\ obj.n_times = 2
    /\ Len(last.calls) = 4

=============================================================================
